---- MODULE Spec2Model ----
(***************************************************************************)
(* The database loaders of src/db: load_stock_data, load_news_data and     *)
(* load_twitter_data over the five tables created by create_database, as   *)
(* a state machine over the committed database, the connection shared by   *)
(* one load command, and the record of the last call.  The commands main   *)
(* (src/db/cli.py) and setup_database (src/db_setup.py) run create_database*)
(* and the loaders in order on a connection of their own.  The package     *)
(* src/market_sentiment is modelled beside them: SentimentAnalyzer's       *)
(* analyze_text, and one model object (RandomForestModel, XGBoostModel or  *)
(* ARIMAModel) with the file it is saved to and loaded from.               *)
(*                                                                         *)
(* Sentiment scores are in hundredths (0.05 is 5).  A JSON value that the  *)
(* code calls .get/.items on is a record [t |-> "obj", f |-> fields] when  *)
(* it is an object and [t |-> "str"], [t |-> "num"] or [t |-> "null"]      *)
(* otherwise; calling .get on a non-object raises.  A text is a sequence   *)
(* of one-character strings, so that `in` is a real substring test.        *)
(***************************************************************************)
EXTENDS Integers, Sequences, FiniteSets, TLC

VARIABLES db, conn, last, hist, nloads, model, path

vars == <<db, conn, last, hist, nloads, model, path>>

\* ---------------------------------------------------------------- bounds
MaxLoads == 3

\* ------------------------------------------------------------ src/db/config.py
TRACKED_SYMBOLS == <<"AAPL", "MSFT", "GOOGL">>

POSITIVE_THRESHOLD == 5

NEGATIVE_THRESHOLD == -5

\* ---------------------------------------------------------------- helpers
\* dict.get(key, default) on an object's fields
Get(f, key, default) == IF key \in DOMAIN f THEN f[key] ELSE default

IsDict(v) == v.t = "obj"

Range(s) == {s[i] : i \in DOMAIN s}

\* Python's `p in t` on strings
StrIn(p, t) == \E i \in 0..(Len(t) - Len(p)) : SubSeq(t, i + 1, i + Len(p)) = p

SymChars(symbol) ==
    CASE symbol = "AAPL" -> <<"A", "A", "P", "L">>
      [] symbol = "MSFT" -> <<"M", "S", "F", "T">>
      [] symbol = "GOOGL" -> <<"G", "O", "O", "G", "L">>

\* ------------------------------------------------------------ src/db/schema.py
Tables == {"stocks", "news", "tweets", "stock_news", "stock_tweets"}

\* the five empty tables create_database leaves; seq is sqlite_sequence,
\* the AUTOINCREMENT counter of each table
EmptyDb ==
    [stocks |-> {}, news |-> {}, tweets |-> {}, stock_news |-> {},
     stock_tweets |-> {}, seq |-> [t \in Tables |-> 0]]

\* a create_database that drops the tables it finds before creating them
create_database_drop(d, ok) ==
    IF ok THEN [ok |-> TRUE, db |-> EmptyDb] ELSE [ok |-> FALSE, db |-> d]

\* create_database(db_path) on the store d.  ok is whether sqlite3 could
\* open and write the store; a sqlite3.Error is caught and reported as
\* False.  CREATE TABLE IF NOT EXISTS adds the tables the store lacks.
create_database(d, ok) ==
    IF ok
    THEN [ok |-> TRUE,
          db |-> [t \in Tables \cup {"seq"} |->
                    IF t \in DOMAIN d THEN d[t]
                    ELSE IF t = "seq" THEN [x \in Tables |-> 0] ELSE {}]]
    ELSE [ok |-> FALSE, db |-> d]

\* a close that leaves the connection open
ConnClose_Leak(c) == c

\* conn.close()
ConnClose(c) == [open |-> FALSE, lr |-> 0]

\* get_db_connection: sqlite3.connect; a new connection has made no insert
ConnOpen == [open |-> TRUE, lr |-> 0]

\* A cursor context cx is [db |-> the connection's view of the database
\* (committed rows and the open transaction's), lr |-> the connection's
\* last insert rowid, which cursor.lastrowid reads after an INSERT].
InsertRow(cx, table, vals) ==
    LET id == cx.db.seq[table] + 1
    IN  [db |-> [cx.db EXCEPT ![table] = @ \cup {[id |-> id] @@ vals},
                              !.seq[table] = id],
         lr |-> id]

\* a stocks table without UNIQUE(symbol, date): every insert adds a row
ExecReplaceStock_NoUnique(cx, vals) == InsertRow(cx, "stocks", vals)

\* INSERT OR IGNORE in place of INSERT OR REPLACE: the row in conflict stays
ExecReplaceStock_Ignore(cx, vals) ==
    IF \E r \in cx.db.stocks : r.symbol = vals.symbol /\ r.date = vals.date
    THEN cx ELSE InsertRow(cx, "stocks", vals)

\* INSERT OR REPLACE INTO stocks: UNIQUE(symbol, date) deletes the row in
\* conflict, the new row takes the next AUTOINCREMENT id
ExecReplaceStock(cx, vals) ==
    LET kept == {r \in cx.db.stocks :
                    ~(r.symbol = vals.symbol /\ r.date = vals.date)}
    IN  InsertRow([cx EXCEPT !.db.stocks = kept], "stocks", vals)

\* INSERT OR IGNORE INTO news: the news table has no UNIQUE constraint, so
\* no insert is ever in conflict
ExecInsertNews(cx, vals) == InsertRow(cx, "news", vals)

TweetConflict(cx, vals) == \E r \in cx.db.tweets : r.tweet_id = vals.tweet_id

\* a tweets table whose tweet_id is not UNIQUE
ExecInsertTweet_NoUnique(cx, vals) == InsertRow(cx, "tweets", vals)

\* INSERT OR REPLACE INTO tweets: the row in conflict is deleted and the new
\* values are stored under the next id
ExecInsertTweet_Replace(cx, vals) ==
    InsertRow([cx EXCEPT !.db.tweets = {r \in @ : r.tweet_id # vals.tweet_id}],
              "tweets", vals)

\* INSERT OR IGNORE INTO tweets: tweet_id TEXT UNIQUE; an ignored insert
\* changes neither the table nor the connection's last insert rowid
ExecInsertTweet(cx, vals) ==
    IF TweetConflict(cx, vals) THEN cx ELSE InsertRow(cx, "tweets", vals)

\* INSERT OR IGNORE INTO stock_news / stock_tweets: no UNIQUE constraint
ExecInsertStockNews(cx, vals) == InsertRow(cx, "stock_news", vals)

ExecInsertStockTweet(cx, vals) == InsertRow(cx, "stock_tweets", vals)

\* get_stock_symbols_map: {row['symbol']: row['id'] for row in SELECT id,
\* symbol FROM stocks}: one id per symbol, that of the row the SELECT
\* yields last; SQL leaves the order open, so any row of the symbol
StockMaps(cx) ==
    LET syms == {r.symbol : r \in cx.db.stocks}
    IN  {m \in [syms -> {r.id : r \in cx.db.stocks}] :
            \A s \in syms : \E r \in cx.db.stocks : r.symbol = s /\ r.id = m[s]}

get_sentiment_label_strict(score) ==
    IF score > POSITIVE_THRESHOLD THEN "positive"
    ELSE IF score < NEGATIVE_THRESHOLD THEN "negative"
    ELSE "neutral"

get_sentiment_label(score) ==
    IF score >= POSITIVE_THRESHOLD THEN "positive"
    ELSE IF score <= NEGATIVE_THRESHOLD THEN "negative"
    ELSE "neutral"

\* ------------------------------------------- src/db/loaders/stock_loader.py
\* file_path.stem.split('_')[0]; a stem is the tuple of its '_'-separated parts
FileSymbol(file) == file.stem[1]

\* a row that stores -1 (NULL) for the keys the entry lacks
StockVals_NoDefault(symbol, date, data) ==
    [symbol |-> symbol, date |-> date,
     open |-> Get(data.f, "Open", -1), high |-> Get(data.f, "High", -1),
     low |-> Get(data.f, "Low", -1), close |-> Get(data.f, "Close", -1),
     adj_close |-> Get(data.f, "Adj Close", -1),
     volume |-> Get(data.f, "Volume", -1)]

StockVals(symbol, date, data) ==
    [symbol |-> symbol, date |-> date,
     open |-> Get(data.f, "Open", 0), high |-> Get(data.f, "High", 0),
     low |-> Get(data.f, "Low", 0), close |-> Get(data.f, "Close", 0),
     adj_close |-> Get(data.f, "Adj Close", 0),
     volume |-> Get(data.f, "Volume", 0)]

\* the loop over stock_data.items() of one file: [ok, cx, n]
RECURSIVE StockItems(_, _, _, _)
StockItems(cx, symbol, items, n) ==
    IF items = <<>> THEN [ok |-> TRUE, cx |-> cx, n |-> n]
    ELSE LET date == Head(items)[1]
             data == Head(items)[2]
         IN  IF ~IsDict(data) THEN [ok |-> FALSE, cx |-> cx, n |-> n]
             ELSE StockItems(ExecReplaceStock(cx, StockVals(symbol, date, data)),
                             symbol, Tail(items), n + 1)

\* an except branch without conn.rollback(): the rows a failing file
\* inserted stay in the transaction the next file commits
ProcessStockFile_NoRollback(st, file) ==
    LET symbol == FileSymbol(file)
        r == IF file.t = "obj"
             THEN StockItems(st.cx, symbol, file.items, 0)
             ELSE [ok |-> FALSE, cx |-> st.cx, n |-> 0]
    IN  IF r.ok
        THEN [cx |-> r.cx, committed |-> r.cx.db,
              summary |-> [st.summary EXCEPT
                              !.counts = (symbol :> r.n) @@ @,
                              !.total = @ + r.n]]
        ELSE [cx |-> r.cx, committed |-> st.committed,
              summary |-> [st.summary EXCEPT
                              !.errors = @ \cup {symbol}]]

\* the commit moved out of the loop over the files
ProcessStockFile_NoCommit(st, file) ==
    LET symbol == FileSymbol(file)
        r == IF file.t = "obj"
             THEN StockItems(st.cx, symbol, file.items, 0)
             ELSE [ok |-> FALSE, cx |-> st.cx, n |-> 0]
    IN  IF r.ok
        THEN [cx |-> r.cx, committed |-> st.committed,
              summary |-> [st.summary EXCEPT
                              !.counts = (symbol :> r.n) @@ @,
                              !.total = @ + r.n]]
        ELSE [cx |-> [db |-> st.committed, lr |-> r.cx.lr],
              committed |-> st.committed,
              summary |-> [st.summary EXCEPT
                              !.errors = @ \cup {symbol}]]

\* one file of the directory: st is [cx, committed, summary]; the file is
\* committed on success and rolled back to the last commit on an exception
ProcessStockFile(st, file) ==
    LET symbol == FileSymbol(file)
        r == IF file.t = "obj"
             THEN StockItems(st.cx, symbol, file.items, 0)
             ELSE [ok |-> FALSE, cx |-> st.cx, n |-> 0]
    IN  IF r.ok
        THEN [cx |-> r.cx, committed |-> r.cx.db,
              summary |-> [st.summary EXCEPT
                              !.counts = (symbol :> r.n) @@ @,
                              !.total = @ + r.n]]
        ELSE [cx |-> [db |-> st.committed, lr |-> r.cx.lr],
              committed |-> st.committed,
              summary |-> [st.summary EXCEPT
                              !.errors = @ \cup {symbol}]]

RECURSIVE ProcessStockFiles(_, _)
ProcessStockFiles(st, files) ==
    IF files = <<>> THEN st
    ELSE ProcessStockFiles(ProcessStockFile(st, Head(files)), Tail(files))

\* load_stock_data(conn, stock_data_dir) on an existing directory, from the
\* connection context cx0: [summary, db (committed), lr]
RunStockLoad(cx0, dir) ==
    IF dir.files = <<>>
    THEN [summary |-> [kind |-> "warning"], db |-> cx0.db, lr |-> cx0.lr]
    ELSE LET st == ProcessStockFiles([cx |-> cx0, committed |-> cx0.db,
                               summary |-> [kind |-> "ok", total |-> 0,
                                            counts |-> [s \in {} |-> 0],
                                            errors |-> {}]],
                              dir.files)
         IN  [summary |-> st.summary, db |-> st.committed, lr |-> st.cx.lr]

\* -------------------------------------------- src/db/loaders/news_loader.py
\* the loop `for symbol in symbols: if symbol in stock_map: INSERT ... link`
\* shared by both loaders; table is "stock_news" or "stock_tweets"
RECURSIVE LinkLoop(_, _, _, _, _, _, _)
LinkLoop(cx, table, stock_map, symbols, ref_id, score, linked) ==
    IF symbols = <<>> THEN [cx |-> cx, linked |-> linked]
    ELSE LET symbol == Head(symbols)
         IN  IF symbol \in DOMAIN stock_map
             THEN LET vals == IF table = "stock_news"
                              THEN [stock_id |-> stock_map[symbol],
                                    news_id |-> ref_id,
                                    sentiment_score |-> score]
                              ELSE [stock_id |-> stock_map[symbol],
                                    tweet_id |-> ref_id,
                                    sentiment_score |-> score]
                      cx1 == IF table = "stock_news"
                             THEN ExecInsertStockNews(cx, vals)
                             ELSE ExecInsertStockTweet(cx, vals)
                  IN  LinkLoop(cx1, table, stock_map, Tail(symbols), ref_id,
                               score, linked + 1)
             ELSE LinkLoop(cx, table, stock_map, Tail(symbols), ref_id,
                           score, linked)

EmptyObj == [t |-> "obj", f |-> [k \in {} |-> 0]]

NewsVals(f, score) ==
    [source |-> Get(f, "source", "Unknown"),
     datetime |-> Get(f, "published_at", ""),
     headline |-> Get(f, "title", ""),
     summary |-> Get(f, "description", ""),
     url |-> Get(f, "url", ""),
     sentiment_score |-> score,
     sentiment_label |-> get_sentiment_label(score)]

\* SELECT id FROM news WHERE headline = ? AND datetime = ?, fetchone()
NewsLookup(cx, title, published_at) ==
    {r.id : r \in {x \in cx.db.news :
                      x.headline = title /\ x.datetime = published_at}}

MinOf(S) == CHOOSE x \in S : \A y \in S : x <= y

\* the symbols an article is linked by: article.get('symbols', [])
ArticleSymbols(f) == Get(f, "symbols", <<>>)

\* the row id a news insert is linked under: cursor.lastrowid, and when it
\* is 0 the id the lookup returns (0 when the lookup finds nothing)
NewsRowId(cx1, f) ==
    IF cx1.lr # 0 THEN cx1.lr
    ELSE LET found == NewsLookup(cx1, Get(f, "title", ""),
                                 Get(f, "published_at", ""))
         IN  IF found # {} THEN MinOf(found) ELSE 0

\* the loop over the articles of the file: [ok, cx, total, linked]; ok is
\* FALSE when a record raised, which leaves the loop
RECURSIVE NewsLoop(_, _, _, _, _)
NewsLoop(cx, stock_map, news_data, total, linked) ==
    IF news_data = <<>>
    THEN [ok |-> TRUE, cx |-> cx, total |-> total, linked |-> linked]
    ELSE LET article == Head(news_data)
             sentiment == Get(article.f, "sentiment", EmptyObj)
         IN  IF ~IsDict(article) \/ ~IsDict(sentiment)
             THEN [ok |-> FALSE, cx |-> cx, total |-> total, linked |-> linked]
             ELSE LET sentiment_score == Get(sentiment.f, "compound", 0)
                      cx1 == ExecInsertNews(cx, NewsVals(article.f, sentiment_score))
                      news_id == NewsRowId(cx1, article.f)
                  IN  IF news_id = 0
                      THEN NewsLoop(cx1, stock_map, Tail(news_data), total, linked)
                      ELSE LET lk == LinkLoop(cx1, "stock_news", stock_map,
                                              ArticleSymbols(article.f), news_id,
                                              sentiment_score, 0)
                           IN  NewsLoop(lk.cx, stock_map, Tail(news_data),
                                        total + 1, linked + lk.linked)

\* a try block that returns the summary without conn.commit(): what the
\* loop inserted is not in the committed database
Finish_NoCommit(cx0, r, stock_map) ==
    IF r.ok
    THEN [summary |-> [kind |-> "ok", total |-> r.total, linked |-> r.linked,
                       warning |-> (DOMAIN stock_map = {})],
          db |-> cx0.db, lr |-> r.cx.lr]
    ELSE [summary |-> [kind |-> "error", loaded_count |-> 0],
          db |-> cx0.db, lr |-> r.cx.lr]

\* an except branch that does not roll back
Finish_NoRollback(cx0, r, stock_map) ==
    IF r.ok
    THEN [summary |-> [kind |-> "ok", total |-> r.total, linked |-> r.linked,
                       warning |-> (DOMAIN stock_map = {})],
          db |-> r.cx.db, lr |-> r.cx.lr]
    ELSE [summary |-> [kind |-> "error", loaded_count |-> 0],
          db |-> r.cx.db, lr |-> r.cx.lr]

\* an except branch whose rollback also loses what earlier loads committed
Finish_RollbackAll(cx0, r, stock_map) ==
    IF r.ok
    THEN [summary |-> [kind |-> "ok", total |-> r.total, linked |-> r.linked,
                       warning |-> (DOMAIN stock_map = {})],
          db |-> r.cx.db, lr |-> r.cx.lr]
    ELSE [summary |-> [kind |-> "error", loaded_count |-> 0],
          db |-> EmptyDb, lr |-> r.cx.lr]

\* the try block of a news or tweet load, given the loop's result r:
\* conn.commit() and the summary, or conn.rollback() and the error summary
Finish(cx0, r, stock_map) ==
    IF r.ok
    THEN [summary |-> [kind |-> "ok", total |-> r.total, linked |-> r.linked,
                       warning |-> (DOMAIN stock_map = {})],
          db |-> r.cx.db, lr |-> r.cx.lr]
    ELSE [summary |-> [kind |-> "error", loaded_count |-> 0],
          db |-> cx0.db, lr |-> r.cx.lr]

\* what `for record in data` yields for the parsed file: the elements of a
\* list, the keys (strings) of a dict such as the envelope {"data": [...]}
Iterate(file) ==
    IF file.t = "dict" THEN [i \in 1..Len(file.keys) |-> [t |-> "str"]]
    ELSE file.items

\* load_news_data(conn, news_data_path) after the file was found
RunNewsLoad(cx0, file, stock_map) ==
    IF file.t \notin {"list", "dict"}
    THEN Finish(cx0, [ok |-> FALSE, cx |-> cx0], stock_map)
    ELSE Finish(cx0, NewsLoop(cx0, stock_map, Iterate(file), 0, 0), stock_map)

\* ----------------------------------------- src/db/loaders/twitter_loader.py
TweetVals(f, score) ==
    LET user == Get(f, "user", EmptyObj)
    IN  [tweet_id |-> Get(f, "id_str", ""),
         user_name |-> Get(user.f, "name", ""),
         user_screen_name |-> Get(user.f, "screen_name", ""),
         datetime |-> Get(f, "created_at", ""),
         content |-> Get(f, "text", <<>>),
         sentiment_score |-> score,
         sentiment_label |-> get_sentiment_label(score)]

\* SELECT id FROM tweets WHERE tweet_id = ?
TweetLookup(cx, tweet_id) == {r.id : r \in {x \in cx.db.tweets : x.tweet_id = tweet_id}}

\* the row id a tweet insert is linked under: cursor.lastrowid, which after
\* an ignored insert is still the connection's last insert rowid, and when
\* it is 0 the id the lookup returns (0 when the lookup finds nothing)
TweetRowId(cx1, f) ==
    IF cx1.lr # 0 THEN cx1.lr
    ELSE LET found == TweetLookup(cx1, Get(f, "id_str", ""))
         IN  IF found # {} THEN MinOf(found) ELSE 0

\* for symbol in TRACKED_SYMBOLS: "$S" in text or "#S" in text or S in text
Mentions(text, symbol) ==
    \/ StrIn(<<"$">> \o SymChars(symbol), text)
    \/ StrIn(<<"#">> \o SymChars(symbol), text)
    \/ StrIn(SymChars(symbol), text)

\* a matching that appends the symbol once for every form the text contains
TweetSymbols_PerForm(text) ==
    LET forms == <<<<"$">>, <<"#">>, <<>>>>
        pairs == [i \in 1..(3 * Len(TRACKED_SYMBOLS)) |->
                    <<TRACKED_SYMBOLS[((i - 1) \div 3) + 1], forms[((i - 1) % 3) + 1]>>]
        hit == SelectSeq(pairs, LAMBDA q : StrIn(q[2] \o SymChars(q[1]), text))
    IN  [i \in 1..Len(hit) |-> hit[i][1]]

\* symbols = []; a symbol is appended once when any of the three forms matches
TweetSymbols(text) == SelectSeq(TRACKED_SYMBOLS, LAMBDA s : Mentions(text, s))

RECURSIVE TweetLoop(_, _, _, _, _)
TweetLoop(cx, stock_map, twitter_data, total, linked) ==
    IF twitter_data = <<>>
    THEN [ok |-> TRUE, cx |-> cx, total |-> total, linked |-> linked]
    ELSE LET tweet == Head(twitter_data)
             sentiment == Get(tweet.f, "sentiment", EmptyObj)
         IN  IF ~IsDict(tweet) \/ ~IsDict(sentiment)
             THEN [ok |-> FALSE, cx |-> cx, total |-> total, linked |-> linked]
             ELSE LET sentiment_score == Get(sentiment.f, "compound", 0)
                      cx1 == ExecInsertTweet(cx, TweetVals(tweet.f, sentiment_score))
                      db_tweet_id == TweetRowId(cx1, tweet.f)
                  IN  IF db_tweet_id = 0
                      THEN TweetLoop(cx1, stock_map, Tail(twitter_data), total, linked)
                      ELSE LET lk == LinkLoop(cx1, "stock_tweets", stock_map,
                                              TweetSymbols(Get(tweet.f, "text", <<>>)),
                                              db_tweet_id, sentiment_score, 0)
                           IN  TweetLoop(lk.cx, stock_map, Tail(twitter_data),
                                         total + 1, linked + lk.linked)

RunTwitterLoad(cx0, file, stock_map) ==
    IF file.t \notin {"list", "dict"}
    THEN Finish(cx0, [ok |-> FALSE, cx |-> cx0], stock_map)
    ELSE Finish(cx0, TweetLoop(cx0, stock_map, Iterate(file), 0, 0), stock_map)

\* ------------------------------------------------------------------ inputs
Obj(fields) == [t |-> "obj", f |-> fields]

Sentiment(compound) == Obj([compound |-> compound])

FullEntry ==
    Obj(("Open" :> 10) @@ ("High" :> 12) @@ ("Low" :> 9) @@ ("Close" :> 11)
        @@ ("Adj Close" :> 11) @@ ("Volume" :> 1000))

\* an entry that lacks every key but Open
PartEntry == Obj(("Open" :> 20))

\* a JSON number where the loader expects an object
BadEntry == [t |-> "num"]

AStockFile(symbol, t, items) ==
    [stem |-> <<symbol, "stock", "data">>, t |-> t, items |-> items]

\* <SYMBOL>_stock_data.json files: a malformed one, and date -> OHLCV objects
StockFilesOf(symbol) ==
    {AStockFile(symbol, "malformed", <<>>)}
    \cup {AStockFile(symbol, "obj", items) :
            items \in {<<<<"d1", FullEntry>>>>,
                       <<<<"d1", PartEntry>>>>,
                       <<<<"d1", FullEntry>>, <<"d2", FullEntry>>>>,
                       <<<<"d1", FullEntry>>, <<"d2", BadEntry>>>>}}

\* the directories: missing, empty, and the files of one or two symbols in
\* the order glob yields them
StockDirs ==
    {[exists |-> FALSE, files |-> <<>>], [exists |-> TRUE, files |-> <<>>]}
    \cup {[exists |-> TRUE, files |-> <<a>>] : a \in StockFilesOf("AAPL")}
    \cup {[exists |-> TRUE, files |-> fs] :
            fs \in UNION {{<<a, m>>, <<m, a>>} :
                            a \in StockFilesOf("AAPL"),
                            m \in {AStockFile("MSFT", "obj", <<<<"d1", PartEntry>>>>)}}}

Articles ==
    {Obj([title |-> "h1", published_at |-> "p1", symbols |-> <<"AAPL">>,
          sentiment |-> Sentiment(5)]),
     Obj([title |-> "h2", published_at |-> "p1", symbols |-> <<"GOOGL", "MSFT">>,
          sentiment |-> Sentiment(-5)]),
     Obj([title |-> "h2", published_at |-> "p2",
          entities |-> <<[symbol |-> "AAPL"]>>, sentiment |-> Sentiment(4)])}

\* records that raise: a string where an article or tweet object is
\* expected, and an object whose sentiment is null
BadRecords ==
    {[t |-> "str"], Obj([title |-> "h1", sentiment |-> [t |-> "null"]])}

Text(prefix, symbol) == prefix \o SymChars(symbol)

Tweets ==
    {Obj([id_str |-> "t1", text |-> Text(<<"$">>, "AAPL"),
          sentiment |-> Sentiment(-5)]),
     Obj([id_str |-> "t1", text |-> Text(<<"u", "p", " ">>, "MSFT"),
          sentiment |-> Sentiment(5)]),
     Obj([tweet_id |-> "t2", text |-> <<"h", "i">>,
          user |-> Obj([name |-> "n", screen_name |-> "s"]),
          created_at |-> "c1"])}

\* the lists a file holds: one or two records
Lists(S, B) ==
    {<<x>> : x \in S \cup B}
    \cup {<<x, y>> : x \in S, y \in S \cup B}
    \cup {<<x, y>> : x \in B, y \in S}

\* a file: missing, malformed JSON, or a list of records S with at most one
\* of the records B that raise
JsonFiles(S, B) ==
    {[t |-> "missing", items |-> <<>>], [t |-> "malformed", items |-> <<>>]}
    \cup {[t |-> "list", items |-> l] : l \in Lists(S, B)}

NewsFiles == JsonFiles(Articles, BadRecords)

TwitterFiles == JsonFiles(Tweets, BadRecords)

\* ---------- src/market_sentiment/data/processors/sentiment_analyzer.py
\* A value handed to analyze_text is [t |-> its JSON type] for null,
\* [t, n |-> the number] for a number or a boolean (True is 1), and
\* [t, v |-> the sequence of its characters, items or keys] otherwise.
\* Python's truth value of it
Truthy(text) ==
    CASE text.t = "null" -> FALSE
      [] text.t \in {"bool", "num"} -> text.n # 0
      [] OTHER -> text.v # <<>>

\* isinstance(text, str)
IsStr(text) == text.t = "str"

\* the neutral scores, in hundredths, with the 'error' entry
NeutralDefault(error) ==
    [compound |-> 0, neg |-> 0, neu |-> 100, pos |-> 0, error |-> error]

\* an analyze_text without the try block around the scorer
analyze_text_NoTry(text, scorer) ==
    IF ~Truthy(text) \/ ~IsStr(text)
    THEN [raised |-> FALSE,
          value |-> NeutralDefault("Input text is missing or not a string")]
    ELSE IF scorer.raises
    THEN [raised |-> TRUE, value |-> NeutralDefault(scorer.message)]
    ELSE [raised |-> FALSE, value |-> scorer.scores]

\* analyze_text(text): scorer is what self.analyzer.polarity_scores(text)
\* does, raise an exception with a message or return the scores
analyze_text(text, scorer) ==
    IF ~Truthy(text) \/ ~IsStr(text)
    THEN [raised |-> FALSE,
          value |-> NeutralDefault("Input text is missing or not a string")]
    ELSE IF scorer.raises
    THEN [raised |-> FALSE, value |-> NeutralDefault(scorer.message)]
    ELSE [raised |-> FALSE, value |-> scorer.scores]

\* the values a JSON record gives for a text field
TextValues ==
    {[t |-> "null"], [t |-> "bool", n |-> 0], [t |-> "bool", n |-> 1],
     [t |-> "num", n |-> 0], [t |-> "num", n |-> 7],
     [t |-> "str", v |-> <<>>], [t |-> "str", v |-> <<"N", "/", "A">>],
     [t |-> "str", v |-> Text(<<"u", "p", " ">>, "AAPL")],
     [t |-> "list", v |-> <<>>], [t |-> "list", v |-> <<"a">>],
     [t |-> "dict", v |-> <<>>], [t |-> "dict", v |-> <<"k">>]}

NoScores == [compound |-> 0, neg |-> 0, neu |-> 0, pos |-> 0]

\* what polarity_scores does: raises, or returns scores in hundredths
ScorerOutcomes ==
    {[raises |-> TRUE, message |-> "scorer failed", scores |-> NoScores]}
    \cup {[raises |-> FALSE, message |-> "", scores |-> sc] :
            sc \in {[compound |-> 0, neg |-> 0, neu |-> 100, pos |-> 0],
                    [compound |-> 44, neg |-> 0, neu |-> 58, pos |-> 42],
                    [compound |-> -5, neg |-> 20, neu |-> 80, pos |-> 0]}}

\* ------------------------------------ src/market_sentiment/models
\* A model object is [kind, trained, model (self.model: "None", the
\* estimator as constructed, fitted, or whatever load unpickled),
\* model_result (ARIMAModel: unset, the fitted results, or the parameter
\* array fit returns with return_params=True), lib (whether the model's
\* library can be imported)].
ModelKinds == {"random_forest", "xgboost", "arima"}

NoModel ==
    [kind |-> "none", trained |-> FALSE, model |-> "None",
     model_result |-> "unset", lib |-> FALSE]

\* BaseModel.__init__ and the subclass's: trained = False; the estimator is
\* built when its library is importable (sklearn is imported with the module)
Construct(kind, lib) ==
    [kind |-> kind, trained |-> FALSE,
     model |-> IF kind = "random_forest" \/ (kind = "xgboost" /\ lib)
               THEN "estimator" ELSE "None",
     model_result |-> "unset",
     lib |-> IF kind = "random_forest" THEN TRUE ELSE lib]

\* a call's result: the object after it and the exception raised ("none"
\* when the call returns)
Returned(m) == [m |-> m, raised |-> "none"]

Raised(m, exception) == [m |-> m, raised |-> exception]

\* the training data of a call: of a type the method does not accept, data
\* the library's fit raises on, data fit accepts called with
\* return_params=True (ARIMA.fit then returns the parameter array), and
\* data fit accepts
TrainData == {"invalid", "unfittable", "return_params", "good"}

\* RandomForestModel.train and XGBoostModel.train: X.shape is read before
\* the try block; the estimator is built if __init__ could not; fit, then
\* self.trained = True
train_estimator(m, data) ==
    IF data = "invalid" THEN Raised(m, "AttributeError")
    ELSE IF m.model = "None" /\ ~m.lib THEN Raised(m, "ImportError")
    ELSE LET built == IF m.model = "None" THEN [m EXCEPT !.model = "estimator"]
                      ELSE m
         IN  IF data = "unfittable" THEN Raised(built, "ValueError")
             ELSE Returned([built EXCEPT !.model = "fitted", !.trained = TRUE])

\* ARIMAModel.train: the import and the type checks precede the try block;
\* inside it self.model_result = model.fit(**kwargs), self.trained = True,
\* and then the summary of the result is formatted for the log, which
\* raises AttributeError on the parameter array
train_arima(m, data) ==
    IF ~m.lib THEN Raised(m, "ImportError")
    ELSE IF data = "invalid" THEN Raised(m, "ValueError")
    ELSE IF data = "unfittable" THEN Raised(m, "ValueError")
    ELSE IF data = "return_params"
    THEN Raised([m EXCEPT !.model_result = "params", !.trained = TRUE],
                "AttributeError")
    ELSE Returned([m EXCEPT !.model_result = "results", !.trained = TRUE])

train(m, data) ==
    IF m.kind = "arima" THEN train_arima(m, data) ELSE train_estimator(m, data)

\* predict and evaluate: super() raises RuntimeError while not trained;
\* then the estimator, or ARIMA's model_result, is asked for the values
predict(m) ==
    IF ~m.trained THEN Raised(m, "RuntimeError")
    ELSE IF m.kind = "arima" /\ m.model_result # "results"
    THEN Raised(m, "AttributeError")
    ELSE IF m.kind # "arima" /\ m.model = "None"
    THEN Raised(m, "AttributeError")
    ELSE Returned(m)

evaluate(m) ==
    IF ~m.trained THEN Raised(m, "RuntimeError") ELSE predict(m)

\* the file at a path: absent, not a pickle, or the pickle of an object
NoFile == [t |-> "absent", of |-> "None"]

CorruptFile == [t |-> "corrupt", of |-> "None"]

\* BaseModel.save(path): [m, raised, file]; RuntimeError before anything is
\* written while not trained, else pickle.dump(self.model) when the path
\* can be written
save(m, file, writable) ==
    IF ~m.trained THEN Raised(m, "RuntimeError") @@ [file |-> file]
    ELSE IF ~writable THEN Raised(m, "OSError") @@ [file |-> file]
    ELSE Returned(m) @@ [file |-> [t |-> "pickle", of |-> m.model]]

\* BaseModel.load(path): FileNotFoundError when there is no file; else
\* self.model = pickle.load(f) and self.trained = True, both skipped when
\* pickle.load raises
load(m, file) ==
    IF file.t = "absent" THEN Raised(m, "FileNotFoundError")
    ELSE IF file.t = "corrupt" THEN Raised(m, "UnpicklingError")
    ELSE Returned([m EXCEPT !.model = file.of, !.trained = TRUE])

\* --------------------------------------------------------------- the state
\* db: the committed database.  conn: the connection a load command holds
\* and passes to each loader (src/db/cli.py main, src/db_setup.py
\* setup_database).  last: the last loader call (its input, its summary, the
\* database and the last insert rowid before it).  hist: for every (symbol,
\* date) of a stock file that loaded without error, the values of the latest
\* such file; and the tweet ids of the tweet files that loaded without error.
\* model: the model object of src/market_sentiment/models under use; path:
\* the file at the path it is saved to and loaded from.
Init ==
    /\ db = EmptyDb
    /\ conn = [open |-> FALSE, lr |-> 0]
    /\ last = [op |-> "none"]
    /\ hist = [stocks |-> [k \in {} |-> 0], tweet_ids |-> {}]
    /\ nloads = 0
    /\ model = NoModel
    /\ path = NoFile

\* with get_db_connection(db_path) as conn: a new connection has made no insert
OpenConn ==
    /\ ~conn.open
    /\ conn' = ConnOpen
    /\ UNCHANGED <<db, last, hist, nloads, model, path>>

CloseConn ==
    /\ conn.open
    /\ conn' = ConnClose(conn)
    /\ UNCHANGED <<db, last, hist, nloads, model, path>>

\* the context of a loader called with the held connection
Cx0 == [db |-> db, lr |-> conn.lr]

\* the connection a loader opened itself: none, or the state it is left in
NoOwn == [opened |-> FALSE, open |-> FALSE]

OwnOf(c) == [opened |-> TRUE, open |-> c.open]

\* the record of a loader call
Called(op, input, summary, own) ==
    [op |-> op, input |-> input, summary |-> summary, pre |-> db,
     lr0 |-> conn.lr, own |-> own]

ErrorSummary == [kind |-> "error", loaded_count |-> 0]

\* A loader called with conn=None runs get_db_connection().__enter__() and
\* keeps only the connection: the context manager is dropped at once, CPython
\* finalises its generator there, and the generator's finally clause closes
\* the connection.  conn.cursor(), outside the try block, then raises
\* sqlite3.ProgrammingError out of the loader.
RaisedSummary == [kind |-> "raised"]

\* the connection the loader works on: the caller's when one is passed,
\* else its own, which the finalised context manager has closed
ObtainConn(c, passed) ==
    IF passed THEN c ELSE ConnClose(ConnOpen)

\* a finally clause that closes the connection whoever opened it
LoaderExit_CloseAlways(c, passed, mine, r) ==
    LET after == [mine EXCEPT !.lr = r.lr]
    IN  [summary |-> r.summary, db |-> r.db,
         conn |-> IF passed THEN ConnClose(after) ELSE c,
         own |-> IF passed THEN NoOwn ELSE OwnOf(ConnClose(after))]

\* a loader's exit, given the connection mine it worked on with result r
\* ([summary, db, lr]): finally: if close_conn: conn.close()
LoaderExit(c, passed, mine, r) ==
    LET after == [mine EXCEPT !.lr = r.lr]
    IN  [summary |-> r.summary, db |-> r.db,
         conn |-> IF passed THEN after ELSE c,
         own |-> IF passed THEN NoOwn ELSE OwnOf(ConnClose(after))]

\* conn.cursor() on a closed connection raises before the try block
LoaderRaise(d, c, passed, mine) ==
    [summary |-> RaisedSummary, db |-> d, conn |-> c,
     own |-> IF passed THEN NoOwn ELSE OwnOf(mine)]

\* a return before any connection is obtained
LoaderError(d, c) ==
    [summary |-> ErrorSummary, db |-> d, conn |-> c, own |-> NoOwn]

\* load_stock_data(conn, stock_data_dir) on the committed database d: c is
\* the caller's connection, passed is whether conn is not None
load_stock_data(d, c, passed, dir) ==
    LET mine == ObtainConn(c, passed)
    IN  IF ~dir.exists THEN LoaderError(d, c)
        ELSE IF ~mine.open THEN LoaderRaise(d, c, passed, mine)
        ELSE LoaderExit(c, passed, mine,
                        RunStockLoad([db |-> d, lr |-> mine.lr], dir))

load_news_data(d, c, passed, file, stock_map) ==
    LET mine == ObtainConn(c, passed)
    IN  IF file.t = "missing" THEN LoaderError(d, c)
        ELSE IF ~mine.open THEN LoaderRaise(d, c, passed, mine)
        ELSE LoaderExit(c, passed, mine,
                        RunNewsLoad([db |-> d, lr |-> mine.lr], file, stock_map))

load_twitter_data(d, c, passed, file, stock_map) ==
    LET mine == ObtainConn(c, passed)
    IN  IF file.t = "missing" THEN LoaderError(d, c)
        ELSE IF ~mine.open THEN LoaderRaise(d, c, passed, mine)
        ELSE LoaderExit(c, passed, mine,
                        RunTwitterLoad([db |-> d, lr |-> mine.lr], file, stock_map))

FileValid(file) ==
    file.t = "obj" /\ \A i \in DOMAIN file.items : IsDict(file.items[i][2])

RECURSIVE HistStocks(_, _)
HistStocks(h, files) ==
    IF files = <<>> THEN h
    ELSE LET file == Head(files)
             new == [k \in {<<FileSymbol(file), file.items[i][1]>> :
                              i \in DOMAIN file.items} |->
                       LET i == CHOOSE i \in DOMAIN file.items :
                                    file.items[i][1] = k[2]
                       IN  file.items[i][2].f]
         IN  HistStocks(IF FileValid(file) THEN new @@ h ELSE h, Tail(files))

\* a loader called by the holder of conn: with the connection when it is
\* open, with conn=None when the caller holds none
LoadStockData(dir) ==
    /\ nloads < MaxLoads
    /\ nloads' = nloads + 1
    /\ UNCHANGED <<model, path>>
    /\ LET r == load_stock_data(db, conn, conn.open, dir)
       IN  /\ db' = r.db
           /\ conn' = r.conn
           /\ last' = Called("stocks", dir, r.summary, r.own)
           /\ hist' = [hist EXCEPT !.stocks =
                          IF r.summary.kind = "ok"
                          THEN HistStocks(@, dir.files) ELSE @]

LoadNewsData(file) ==
    /\ nloads < MaxLoads
    /\ nloads' = nloads + 1
    /\ UNCHANGED <<model, path>>
    /\ UNCHANGED hist
    /\ \E stock_map \in StockMaps(Cx0) :
         LET r == load_news_data(db, conn, conn.open, file, stock_map)
         IN  /\ db' = r.db
             /\ conn' = r.conn
             /\ last' = Called("news", file, r.summary, r.own)

TweetIdsOf(file) ==
    {Get(file.items[i].f, "id_str", "") : i \in DOMAIN file.items}

LoadTwitterData(file) ==
    /\ nloads < MaxLoads
    /\ nloads' = nloads + 1
    /\ UNCHANGED <<model, path>>
    /\ \E stock_map \in StockMaps(Cx0) :
         LET r == load_twitter_data(db, conn, conn.open, file, stock_map)
         IN  /\ db' = r.db
             /\ conn' = r.conn
             /\ last' = Called("tweets", file, r.summary, r.own)
             /\ hist' = [hist EXCEPT !.tweet_ids =
                            IF r.summary.kind = "ok"
                            THEN @ \cup TweetIdsOf(file) ELSE @]

\* ----------------------------------- src/db/cli.py and src/db_setup.py
AllLoads == {"stocks", "news", "tweets"}

\* the loads a command runs.  main (cli): --load-all or the --load-* flags,
\* and every load when none is given.  setup_database: load_all or the
\* load_* arguments.
Selected(cmd, args) ==
    IF args.load_all THEN AllLoads
    ELSE IF cmd = "cli" /\ args.flags = {} THEN AllLoads
    ELSE args.flags

\* the with block runs the news load ahead of the stock load
LoadOrder_NewsFirst == <<"news", "stocks", "tweets">>

\* the order of the loader calls inside `with get_db_connection(...) as conn`
LoadOrder == <<"stocks", "news", "tweets">>

Skipped == [kind |-> "skipped"]

\* the state of the with block after a loader returned r: main (cli) reads
\* result['total'] of every summary without an 'error' key, a KeyError on a
\* summary that has neither; setup_database stores the summary as it is
AfterLoad(cmd, st, what, r) ==
    [db |-> r.db, conn |-> r.conn,
     raised |-> \/ r.summary.kind = "raised"
                \/ cmd = "cli" /\ r.summary.kind \notin {"ok", "error"},
     results |-> [st.results EXCEPT ![what] = r.summary]]

\* one `if load_<what>:` block: the states it can leave
LoadStep(cmd, st, what, sel, dir, nfile, tfile) ==
    IF st.raised \/ what \notin sel THEN {st}
    ELSE IF what = "stocks"
    THEN {AfterLoad(cmd, st, what, load_stock_data(st.db, st.conn, TRUE, dir))}
    ELSE IF what = "news"
    THEN {AfterLoad(cmd, st, what,
                    load_news_data(st.db, st.conn, TRUE, nfile, stock_map)) :
             stock_map \in StockMaps([db |-> st.db, lr |-> st.conn.lr])}
    ELSE {AfterLoad(cmd, st, what,
                    load_twitter_data(st.db, st.conn, TRUE, tfile, stock_map)) :
             stock_map \in StockMaps([db |-> st.db, lr |-> st.conn.lr])}

RECURSIVE RunLoads(_, _, _, _, _, _, _)
RunLoads(cmd, S, order, sel, dir, nfile, tfile) ==
    IF order = <<>> THEN S
    ELSE RunLoads(cmd,
                  UNION {LoadStep(cmd, st, Head(order), sel, dir, nfile, tfile) :
                           st \in S},
                  Tail(order), sel, dir, nfile, tfile)

NoResults == [w \in AllLoads |-> Skipped]

\* main() of cli.py (cmd = "cli") and setup_database (cmd = "setup") on the
\* store d: the outcomes [db, conn, raised, results, exit].  conn is the
\* connection of the with block, closed when the block is left by return or
\* by an exception; exit is main's exit code, 1 also when the process ends
\* on an uncaught exception, and for setup_database whether the returned
\* summary has the key 'error'.
RunCommand(cmd, d, args, ok, dir, nfile, tfile) ==
    LET created == create_database(d, ok)
        none == [db |-> created.db, conn |-> ConnClose(ConnOpen),
                 raised |-> FALSE, results |-> NoResults]
    IN  IF ~created.ok THEN {none @@ [exit |-> 1]}
        ELSE IF cmd = "cli" /\ args.schema_only THEN {none @@ [exit |-> 0]}
        ELSE {[st EXCEPT !.conn = ConnClose(@)]
                 @@ [exit |-> IF st.raised THEN 1 ELSE 0] :
                st \in RunLoads(cmd, {[none EXCEPT !.conn = ConnOpen]}, LoadOrder,
                                Selected(cmd, args), dir, nfile, tfile)}

\* the stock directories the news and tweet specifications load: two dates
\* of one symbol, and one date of each of two symbols
CoreStockDirs ==
    {[exists |-> TRUE,
      files |-> <<AStockFile("AAPL", "obj",
                             <<<<"d1", FullEntry>>, <<"d2", FullEntry>>>>)>>],
     [exists |-> TRUE,
      files |-> <<AStockFile("MSFT", "obj", <<<<"d1", PartEntry>>>>),
                  AStockFile("AAPL", "obj", <<<<"d1", FullEntry>>>>)>>]}

\* the lists of one record, or of one record and one that raises
CoreLists(S, B) ==
    {<<a>> : a \in S}
    \cup {<<b, a>> : b \in B, a \in S} \cup {<<a, b>> : a \in S, b \in B}

CoreNewsFiles == {[t |-> "list", items |-> l] : l \in CoreLists(Articles, BadRecords)}

CoreTwitterFiles == {[t |-> "list", items |-> l] : l \in CoreLists(Tweets, BadRecords)}

\* stock loads alone
NextStocks ==
    \/ OpenConn
    \/ CloseConn
    \/ \E dir \in StockDirs : LoadStockData(dir)

SpecStocks == Init /\ [][NextStocks]_vars

\* news loads over a few stock directories
NextNews ==
    \/ OpenConn
    \/ CloseConn
    \/ \E dir \in CoreStockDirs : LoadStockData(dir)
    \/ \E file \in NewsFiles : LoadNewsData(file)

SpecNews == Init /\ [][NextNews]_vars

\* tweet loads over a few stock directories
NextTweets ==
    \/ OpenConn
    \/ CloseConn
    \/ \E dir \in CoreStockDirs : LoadStockData(dir)
    \/ \E file \in TwitterFiles : LoadTwitterData(file)

SpecTweets == Init /\ [][NextTweets]_vars

\* articles with and without the fields title and published_at
GapArticles ==
    {Obj([title |-> "h1", published_at |-> "p1", symbols |-> <<"AAPL">>,
          sentiment |-> Sentiment(5)]),
     Obj([published_at |-> "p3", symbols |-> <<"AAPL">>,
          sentiment |-> Sentiment(5)]),
     Obj([title |-> "h3", sentiment |-> Sentiment(-5)])}

\* tweets keyed by tweet_id (the key perform_sentiment_analysis.py and
\* SentimentAnalyzer._extract_tweet_info write), by id_str, and by neither
KeyTweets ==
    {Obj([tweet_id |-> "t2", text |-> Text(<<"$">>, "AAPL"),
          sentiment |-> Sentiment(5)]),
     Obj([tweet_id |-> "t3", text |-> <<"h", "i">>,
          sentiment |-> Sentiment(-5)]),
     Obj([id_str |-> "t1", text |-> Text(<<"#">>, "AAPL"),
          sentiment |-> Sentiment(5)]),
     Obj([text |-> <<"y", "o">>, sentiment |-> Sentiment(4)])}

\* the lists of one record or of two different records of S
ShapeLists(S) ==
    {<<x>> : x \in S} \cup {p \in S \X S : p[1] # p[2]}

\* a news file as a bare list and as the envelope {"data": [...]}
ShapeNewsFiles ==
    {[t |-> "list", items |-> l] : l \in ShapeLists(GapArticles)}
    \cup {[t |-> "dict", keys |-> <<"data">>, items |-> l] :
             l \in ShapeLists(GapArticles)}

ShapeTwitterFiles == {[t |-> "list", items |-> l] : l \in ShapeLists(KeyTweets)}

\* the record shapes the loaders are given: missing fields, key names, and
\* the envelope
NextShapes ==
    \/ OpenConn
    \/ CloseConn
    \/ \E dir \in CoreStockDirs : LoadStockData(dir)
    \/ \E file \in ShapeNewsFiles : LoadNewsData(file)
    \/ \E file \in ShapeTwitterFiles : LoadTwitterData(file)

SpecShapes == Init /\ [][NextShapes]_vars

\* create_database(db_path) called on its own
CreateDatabase(ok) ==
    /\ nloads < MaxLoads
    /\ nloads' = nloads + 1
    /\ UNCHANGED <<model, path>>
    /\ LET created == create_database(db, ok)
       IN  /\ db' = created.db
           /\ last' = [op |-> "create", store_ok |-> ok, ok |-> created.ok,
                       pre |-> db]
    /\ UNCHANGED <<conn, hist>>

\* one run of main (cli) or of setup_database, on a connection of its own
Command(cmd, args, ok, dir, nfile, tfile) ==
    /\ nloads < MaxLoads
    /\ nloads' = nloads + 1
    /\ UNCHANGED <<model, path>>
    /\ \E out \in RunCommand(cmd, db, args, ok, dir, nfile, tfile) :
         /\ db' = out.db
         /\ last' = [op |-> "main", cmd |-> cmd, args |-> args,
                     sel |-> Selected(cmd, args), created |-> ok,
                     dir |-> dir, news |-> nfile, tweets |-> tfile,
                     pre |-> db, results |-> out.results, raised |-> out.raised,
                     exit |-> out.exit, conn |-> out.conn]
         /\ hist' = [stocks |-> IF out.results["stocks"].kind = "ok"
                                THEN HistStocks(hist.stocks, dir.files)
                                ELSE hist.stocks,
                     tweet_ids |-> IF out.results["tweets"].kind = "ok"
                                   THEN hist.tweet_ids \cup TweetIdsOf(tfile)
                                   ELSE hist.tweet_ids]
    /\ UNCHANGED conn

\* the arguments of a command that loads: every load (by --load-all, or by
\* no flag), or the loads flagged
CommandArgs ==
    {[schema_only |-> FALSE, load_all |-> TRUE, flags |-> {}]}
    \cup {[schema_only |-> FALSE, load_all |-> FALSE, flags |-> fl] :
            fl \in {{}, {"stocks"}, {"news"}, {"news", "tweets"}}}

SchemaOnly == [schema_only |-> TRUE, load_all |-> FALSE, flags |-> {}]

\* the data directory of a command: stock_data missing, empty, or holding
\* the file of one symbol; the news and tweet files missing or of one record
CommandDirs ==
    {[exists |-> FALSE, files |-> <<>>], [exists |-> TRUE, files |-> <<>>],
     [exists |-> TRUE,
      files |-> <<AStockFile("AAPL", "obj", <<<<"d1", FullEntry>>>>)>>]}

CommandNewsFiles ==
    {[t |-> "missing", items |-> <<>>],
     [t |-> "list",
      items |-> <<Obj([title |-> "h1", published_at |-> "p1",
                       symbols |-> <<"AAPL">>, sentiment |-> Sentiment(5)])>>]}

CommandTwitterFiles ==
    {[t |-> "malformed", items |-> <<>>],
     [t |-> "list",
      items |-> <<Obj([id_str |-> "t1", text |-> Text(<<"$">>, "AAPL"),
                       sentiment |-> Sentiment(-5)])>>]}

MissingFile == [t |-> "missing", items |-> <<>>]

\* the commands (one that fails to create the schema, one with
\* --schema-only, and the loading ones), create_database on its own, and
\* the loaders called with conn=None
NextMain ==
    \/ \E ok \in BOOLEAN : CreateDatabase(ok)
    \/ \E cmd \in {"cli", "setup"}, dir \in CommandDirs :
          Command(cmd, SchemaOnly, FALSE, dir, MissingFile, MissingFile)
    \/ \E dir \in CommandDirs :
          Command("cli", SchemaOnly, TRUE, dir, MissingFile, MissingFile)
    \/ \E cmd \in {"cli", "setup"}, args \in CommandArgs,
          dir \in CommandDirs, nfile \in CommandNewsFiles,
          tfile \in CommandTwitterFiles :
            Command(cmd, args, TRUE, dir, nfile, tfile)
    \/ \E dir \in CommandDirs : LoadStockData(dir)
    \/ \E file \in CommandNewsFiles : LoadNewsData(file)
    \/ \E file \in CommandTwitterFiles : LoadTwitterData(file)

SpecMain == Init /\ [][NextMain]_vars

\* the sources of every exit path of a loader: a missing or empty directory,
\* a file that loads and one that fails part-way; a missing or malformed
\* file, a list that loads and one with a record that raises
PathStockDirs ==
    {[exists |-> FALSE, files |-> <<>>], [exists |-> TRUE, files |-> <<>>]}
    \cup {[exists |-> TRUE, files |-> <<AStockFile("AAPL", "obj", items)>>] :
            items \in {<<<<"d1", FullEntry>>>>,
                       <<<<"d1", FullEntry>>, <<"d2", BadEntry>>>>}}

PathLists(S) == {<<x>> : x \in S} \cup {<<x, [t |-> "str"]>> : x \in S}

PathNewsFiles ==
    {[t |-> "missing", items |-> <<>>], [t |-> "malformed", items |-> <<>>]}
    \cup {[t |-> "list", items |-> l] :
            l \in PathLists({Obj([title |-> "h1", published_at |-> "p1",
                                  symbols |-> <<"AAPL">>,
                                  sentiment |-> Sentiment(5)])})}

PathTwitterFiles ==
    {[t |-> "missing", items |-> <<>>], [t |-> "malformed", items |-> <<>>]}
    \cup {[t |-> "list", items |-> l] :
            l \in PathLists({Obj([id_str |-> "t1", text |-> Text(<<"$">>, "AAPL"),
                                  sentiment |-> Sentiment(-5)])})}

\* the loaders on a connection their caller holds, over every exit path
NextPaths ==
    \/ OpenConn
    \/ CloseConn
    \/ \E dir \in PathStockDirs : LoadStockData(dir)
    \/ \E file \in PathNewsFiles : LoadNewsData(file)
    \/ \E file \in PathTwitterFiles : LoadTwitterData(file)

SpecPaths == Init /\ [][NextPaths]_vars

\* the three loaders together
Next ==
    \/ OpenConn
    \/ CloseConn
    \/ \E dir \in CoreStockDirs : LoadStockData(dir)
    \/ \E file \in CoreNewsFiles : LoadNewsData(file)
    \/ \E file \in CoreTwitterFiles : LoadTwitterData(file)

Spec == Init /\ [][Next]_vars

\* ------------------------------------------- the package's operations
pkgvars == <<db, conn, hist, nloads>>

\* SentimentAnalyzer().analyze_text(text)
AnalyzeText(text, scorer) ==
    /\ last' = [op |-> "analyze_text", text |-> text, scorer |-> scorer,
                result |-> analyze_text(text, scorer)]
    /\ UNCHANGED <<pkgvars, model, path>>

\* the record of a call on the model object
ModelCalled(op, input, r) ==
    [op |-> op, input |-> input, raised |-> r.raised, pre |-> model,
     pre_path |-> path]

\* RandomForestModel(), XGBoostModel() or ARIMAModel()
NewModel(kind, lib) ==
    /\ model' = Construct(kind, lib)
    /\ last' = ModelCalled("construct", kind, Returned(model'))
    /\ UNCHANGED <<pkgvars, path>>

Train(data) ==
    /\ model.kind # "none"
    /\ LET r == train(model, data)
       IN  /\ model' = r.m
           /\ last' = ModelCalled("train", data, r)
    /\ UNCHANGED <<pkgvars, path>>

Predict ==
    /\ model.kind # "none"
    /\ LET r == predict(model)
       IN  /\ model' = r.m
           /\ last' = ModelCalled("predict", "X", r)
    /\ UNCHANGED <<pkgvars, path>>

Evaluate ==
    /\ model.kind # "none"
    /\ LET r == evaluate(model)
       IN  /\ model' = r.m
           /\ last' = ModelCalled("evaluate", "X", r)
    /\ UNCHANGED <<pkgvars, path>>

Save(writable) ==
    /\ model.kind # "none"
    /\ LET r == save(model, path, writable)
       IN  /\ model' = r.m
           /\ path' = r.file
           /\ last' = ModelCalled("save", "path", r)
    /\ UNCHANGED pkgvars

Load ==
    /\ model.kind # "none"
    /\ LET r == load(model, path)
       IN  /\ model' = r.m
           /\ last' = ModelCalled("load", "path", r)
    /\ UNCHANGED <<pkgvars, path>>

\* the file at the path is removed, or overwritten with bytes that are no
\* pickle, by something other than the model
ReplaceFile(file) ==
    /\ path # file
    /\ path' = file
    /\ last' = ModelCalled("replace_file", file.t, Returned(model))
    /\ UNCHANGED <<pkgvars, model>>

NextPackage ==
    \/ \E text \in TextValues, scorer \in ScorerOutcomes : AnalyzeText(text, scorer)
    \/ \E kind \in ModelKinds, lib \in BOOLEAN : NewModel(kind, lib)
    \/ \E data \in TrainData : Train(data)
    \/ Predict
    \/ Evaluate
    \/ \E writable \in BOOLEAN : Save(writable)
    \/ Load
    \/ \E file \in {NoFile, CorruptFile} : ReplaceFile(file)

SpecPackage == Init /\ [][NextPackage]_vars

\* ------------------------------------------------------------------ claims
SansId(r) == [k \in DOMAIN r \ {"id"} |-> r[k]]

LastOk(op) == last.op = op /\ last.summary.kind = "ok"

\* the news rows of an article's natural key (headline, datetime)
NewsKeyRows(d, f) ==
    {r \in d.news : r.headline = Get(f, "title", "")
                    /\ r.datetime = Get(f, "published_at", "")}

NewsLinksOf(d, rows) == {l \in d.stock_news : l.news_id \in {r.id : r \in rows}}

\* C1: re-loading an article that the news table already holds once (same
\* headline and datetime), the stocks of its symbols present, leaves the
\* table at one row for it and adds no stock_news link for it.
C1_ReloadKeepsOneNewsRow ==
    LastOk("news") =>
        \A i \in DOMAIN last.input.items :
            LET f == last.input.items[i].f
            IN  (/\ Cardinality(NewsKeyRows(last.pre, f)) = 1
                 /\ ArticleSymbols(f) # <<>>
                 /\ \A s \in Range(ArticleSymbols(f)) :
                       \E r \in last.pre.stocks : r.symbol = s) =>
                    /\ Cardinality(NewsKeyRows(db, f)) = 1
                    /\ Cardinality(NewsLinksOf(db, NewsKeyRows(db, f)))
                         = Cardinality(NewsLinksOf(last.pre, NewsKeyRows(last.pre, f)))

TweetIdRows(d, tweet_id) == {r \in d.tweets : r.tweet_id = tweet_id}

\* C2: no tweet_id has two rows in the tweets table, and every tweet_id of
\* a tweet file that loaded without error has exactly one.
C2_OneRowPerTweetId ==
    /\ \A r \in db.tweets : Cardinality(TweetIdRows(db, r.tweet_id)) = 1
    /\ \A tweet_id \in hist.tweet_ids : Cardinality(TweetIdRows(db, tweet_id)) = 1

\* a tweet was loaded whose tweet_id was in the table before the call, and
\* the table still has one row for it
C2_Witness ==
    /\ LastOk("tweets")
    /\ \E i \in DOMAIN last.input.items :
          LET tweet_id == Get(last.input.items[i].f, "id_str", "")
          IN  /\ TweetIdRows(last.pre, tweet_id) # {}
              /\ tweet_id \in hist.tweet_ids
              /\ Cardinality(TweetIdRows(db, tweet_id)) = 1

\* C3: when every tweet of a loaded file was already in the tweets table
\* (each insert ignored), every stock_tweets row the load creates carries the
\* id of the existing row of one of the file's tweets.
C3_IgnoredInsertLinksExistingRow ==
    (/\ LastOk("tweets")
     /\ \A i \in DOMAIN last.input.items :
           TweetIdRows(last.pre, Get(last.input.items[i].f, "id_str", "")) # {})
    => \A l \in db.stock_tweets \ last.pre.stock_tweets :
          \E i \in DOMAIN last.input.items :
             \E r \in TweetIdRows(last.pre, Get(last.input.items[i].f, "id_str", "")) :
                /\ l.tweet_id = r.id
                /\ TweetSymbols(Get(last.input.items[i].f, "text", <<>>)) # <<>>

\* C4: every stock_news row's news_id is the id of a news row and every
\* stock_tweets row's tweet_id is the id of a tweets row.
C4_LinksReferToRows ==
    /\ \A l \in db.stock_news : \E r \in db.news : r.id = l.news_id
    /\ \A l \in db.stock_tweets : \E r \in db.tweets : r.id = l.tweet_id

SymbolRows(d, symbol) == {SansId(r) : r \in {x \in d.stocks : x.symbol = symbol}}

\* every date entry of the file is a stocks row of d
FileRowsIn(file, d) ==
    \A i \in DOMAIN file.items :
        StockVals(FileSymbol(file), file.items[i][1], file.items[i][2])
            \in SymbolRows(d, FileSymbol(file))

\* C5: loading a stock file again, unchanged (its rows are in the table from
\* an earlier load), leaves the symbol with the same number of rows and the
\* same values in every (symbol, date) row.
C5_StockReloadIdempotent ==
    LastOk("stocks") =>
        \A i \in DOMAIN last.input.files :
            LET file == last.input.files[i]
            IN  (FileValid(file) /\ FileRowsIn(file, last.pre)) =>
                    /\ SymbolRows(db, FileSymbol(file))
                         = SymbolRows(last.pre, FileSymbol(file))
                    /\ Cardinality({r \in db.stocks : r.symbol = FileSymbol(file)})
                         = Cardinality({r \in last.pre.stocks :
                                           r.symbol = FileSymbol(file)})

\* a file of two dates loaded a second time: the rows were replaced (new ids)
C5_Witness ==
    /\ LastOk("stocks")
    /\ \E i \in DOMAIN last.input.files :
          LET file == last.input.files[i]
          IN  /\ FileValid(file) /\ Len(file.items) = 2
              /\ FileRowsIn(file, last.pre)
              /\ FileRowsIn(file, db)
    /\ db.stocks # last.pre.stocks

\* C6: the stocks table holds exactly one row for each (symbol, date) of a
\* file that loaded without error, with the values (0 for a missing key) of
\* the latest such file, and no other row.
C6_OneRowPerSymbolDate ==
    /\ \A r \in db.stocks : <<r.symbol, r.date>> \in DOMAIN hist.stocks
    /\ \A k \in DOMAIN hist.stocks :
          LET rows == {r \in db.stocks : r.symbol = k[1] /\ r.date = k[2]}
              e == hist.stocks[k]
          IN  /\ Cardinality(rows) = 1
              /\ \A r \in rows :
                    /\ r.open = Get(e, "Open", 0) /\ r.high = Get(e, "High", 0)
                    /\ r.low = Get(e, "Low", 0) /\ r.close = Get(e, "Close", 0)
                    /\ r.adj_close = Get(e, "Adj Close", 0)
                    /\ r.volume = Get(e, "Volume", 0)

\* a later load overwrote the row of a (symbol, date) with other values
C6_Witness ==
    /\ LastOk("stocks")
    /\ \E r \in last.pre.stocks : \E x \in db.stocks :
          /\ x.symbol = r.symbol /\ x.date = r.date
          /\ x.open # r.open /\ x.id # r.id

\* the symbols an article names, in its symbols list or its entities list
NamedSymbols(f) ==
    Range(Get(f, "symbols", <<>>))
    \cup {e.symbol : e \in Range(Get(f, "entities", <<>>))}

\* C7: a news load of one article creates exactly one stock_news row for
\* each tracked symbol the article names that has a stock row, and no row
\* when it names none.
C7_OneLinkPerNamedSymbol ==
    (LastOk("news") /\ Len(last.input.items) = 1) =>
        LET f == last.input.items[1].f
            new == db.stock_news \ last.pre.stock_news
            linkable == {s \in NamedSymbols(f) \cap Range(TRACKED_SYMBOLS) :
                            \E r \in last.pre.stocks : r.symbol = s}
        IN  /\ \A s \in linkable :
                  Cardinality({l \in new :
                      \E r \in last.pre.stocks : r.symbol = s /\ r.id = l.stock_id}) = 1
            /\ linkable = {} => new = {}

ScoreRange == -100..100

\* the threshold rule, 0.05 being 5 hundredths
LabelRule(score, label) ==
    /\ label \in {"positive", "negative", "neutral"}
    /\ label = "positive" <=> score >= 5
    /\ label = "negative" <=> score <= -5

\* C8: get_sentiment_label is the threshold rule on every score, the
\* boundaries 0.05 and -0.05 included, and every news and tweets row's
\* sentiment_label is the rule's label of its sentiment_score.
C8_LabelMatchesThresholds ==
    /\ \A score \in ScoreRange : LabelRule(score, get_sentiment_label(score))
    /\ \A r \in db.news : LabelRule(r.sentiment_score, r.sentiment_label)
    /\ \A r \in db.tweets : LabelRule(r.sentiment_score, r.sentiment_label)

\* rows stored at both boundaries and between them
C8_Witness ==
    /\ \E r \in db.news : r.sentiment_score = 5 /\ r.sentiment_label = "positive"
    /\ \E r \in db.news : r.sentiment_score = 4 /\ r.sentiment_label = "neutral"
    /\ \E r \in db.tweets : r.sentiment_score = -5 /\ r.sentiment_label = "negative"

\* a record raises: it is no object, or its sentiment is null
Raises(record) ==
    ~IsDict(record) \/ ~IsDict(Get(record.f, "sentiment", EmptyObj))

\* the last call is a news or tweet load that reached its loop over a list
\* holding a record that raises
LastBatchWithBadRecord ==
    /\ last.op \in {"news", "tweets"}
    /\ last.summary.kind # "raised"
    /\ last.input.t = "list"
    /\ \E i \in DOMAIN last.input.items : Raises(last.input.items[i])

C10_StockFileErrorIsolated ==
    (/\ last.op = "stocks"
     /\ last.summary.kind # "raised"
     /\ last.input.exists /\ last.input.files # <<>>) =>
        /\ last.summary.kind = "ok"
        /\ \A i \in DOMAIN last.input.files :
              LET file == last.input.files[i]
                  symbol == FileSymbol(file)
              IN  IF FileValid(file)
                  THEN /\ symbol \in DOMAIN last.summary.counts
                       /\ last.summary.counts[symbol] = Len(file.items)
                       /\ symbol \notin last.summary.errors
                       /\ FileRowsIn(file, db)
                  ELSE /\ symbol \in last.summary.errors
                       /\ symbol \notin DOMAIN last.summary.counts

\* a directory whose first file fails after an insert and whose second loads
C10_Witness ==
    /\ last.op = "stocks"
    /\ Len(last.input.files) = 2
    /\ ~FileValid(last.input.files[1])
    /\ last.input.files[1].t = "obj"
    /\ FileValid(last.input.files[2])
    /\ FileRowsIn(last.input.files[2], db)
    /\ last.summary.errors = {FileSymbol(last.input.files[1])}

\* a record lacks a required field: an article its title or published_at, a
\* tweet both tweet_id and id_str
MissingField(op, f) ==
    IF op = "news"
    THEN "title" \notin DOMAIN f \/ "published_at" \notin DOMAIN f
    ELSE "tweet_id" \notin DOMAIN f /\ "id_str" \notin DOMAIN f

\* the rows the last call added for the record f: the news rows of its
\* headline and datetime, the tweets rows of its text
RowsAddedFor(op, f) ==
    IF op = "news"
    THEN NewsKeyRows(db, f) \ last.pre.news
    ELSE {r \in db.tweets \ last.pre.tweets : r.content = Get(f, "text", <<>>)}

\* the last call is a news or tweet load that ran over a list of objects
\* none of which raises
LastCleanBatch ==
    /\ last.op \in {"news", "tweets"}
    /\ last.summary.kind # "raised"
    /\ last.input.t = "list"
    /\ \A i \in DOMAIN last.input.items : ~Raises(last.input.items[i])

\* C11: a news article without title or published_at, or a tweet without
\* an id, is skipped: the load succeeds, creates no row for that record, and
\* creates the rows of the complete records of the batch.
C11_MissingFieldSkipped ==
    LastCleanBatch =>
        /\ last.summary.kind = "ok"
        /\ \A i \in DOMAIN last.input.items :
              LET f == last.input.items[i].f
              IN  MissingField(last.op, f) => RowsAddedFor(last.op, f) = {}

\* the news and stock_news rows of a database, ids aside: each news row
\* with the stock ids it is linked to
NewsContent(d) ==
    {[row |-> SansId(r),
      links |-> {[stock_id |-> l.stock_id, score |-> l.sentiment_score] :
                    l \in {x \in d.stock_news : x.news_id = r.id}}] :
        r \in d.news}

\* C12: a news load of the envelope {"data": [a1, ..., an]} leaves the news
\* and stock_news tables as a load of the bare list [a1, ..., an] from the
\* same state would.
C12_EnvelopeLoadsAsList ==
    (last.op = "news" /\ last.summary.kind # "raised" /\ last.input.t = "dict") =>
        \E stock_map \in StockMaps([db |-> last.pre, lr |-> last.lr0]) :
            NewsContent(db) =
                NewsContent(RunNewsLoad([db |-> last.pre, lr |-> last.lr0],
                                        [t |-> "list", items |-> last.input.items],
                                        stock_map).db)

\* C13: after a successful load of a file whose tweets carry pairwise
\* distinct tweet_id fields, the tweets table has exactly one row stored
\* under each of those tweet_id values.
C13_TweetIdFieldIsKey ==
    (/\ LastOk("tweets")
     /\ \A i \in DOMAIN last.input.items :
           "tweet_id" \in DOMAIN last.input.items[i].f
     /\ \A i, j \in DOMAIN last.input.items :
           i # j => last.input.items[i].f.tweet_id # last.input.items[j].f.tweet_id)
    => \A i \in DOMAIN last.input.items :
          Cardinality(TweetIdRows(db, last.input.items[i].f.tweet_id)) = 1

\* the source of the last loader call is missing, or is a news or tweet
\* file of malformed JSON
LastBadSource ==
    \/ last.op = "stocks" /\ ~last.input.exists
    \/ last.op \in {"news", "tweets"} /\ last.input.t \in {"missing", "malformed"}

\* C14: a loader whose source directory or file is missing, or whose news
\* or tweet file is malformed JSON, returns a summary with the key 'error',
\* raises nothing, and leaves every table as it was.
C14_BadSourceReturnsError ==
    LastBadSource => last.summary.kind = "error" /\ db = last.pre

\* the last call is a run of main (cli) that got past schema creation and
\* --schema-only
LastCliLoad ==
    /\ last.op = "main"
    /\ last.cmd = "cli"
    /\ last.created
    /\ ~last.args.schema_only

\* C15: a run of main that selects the stock load on a stock data
\* directory that does not exist ends with a non-zero exit code.
C15_MissingDirExitsNonZero ==
    (LastCliLoad /\ "stocks" \in last.sel /\ ~last.dir.exists) => last.exit # 0

\* C16: when create_database reports failure main returns 1, raises nothing
\* and calls no loader (the store is untouched); when the schema is created
\* and the loaders run main returns 0.
C16_ExitCodes ==
    (last.op = "main" /\ last.cmd = "cli") =>
        IF ~last.created
        THEN /\ last.exit = 1 /\ ~last.raised
             /\ last.results = NoResults /\ db = last.pre
        ELSE ~last.args.schema_only => last.exit = 0 /\ ~last.raised

\* C17: create_database on a store that it can open and that has the five
\* tables returns True and leaves the tables and every row as they were.
C17_CreateDatabaseIdempotent ==
    (last.op = "create" /\ last.store_ok /\ Tables \subseteq DOMAIN last.pre) =>
        /\ last.ok
        /\ DOMAIN db = DOMAIN last.pre
        /\ db = last.pre

\* create_database was called on a store that holds rows
C17_Witness ==
    /\ last.op = "create" /\ last.store_ok /\ last.ok
    /\ last.pre.stocks # {} /\ last.pre.news # {}
    /\ db = last.pre

\* a file of the command's stock directory loaded rows of the symbol
LoadedNow(symbol) ==
    \E i \in DOMAIN last.dir.files :
        LET file == last.dir.files[i]
        IN  FileValid(file) /\ FileSymbol(file) = symbol /\ file.items # <<>>

\* the ids of the stocks rows of the symbol that the command wrote
StockIdsNow(symbol) ==
    {r.id : r \in {x \in db.stocks \ last.pre.stocks : x.symbol = symbol}}

\* C18: in a run of main or setup_database whose stock load succeeded,
\* every symbol that a loaded article names or a loaded tweet mentions, and
\* that the stock load of this run loaded, has a link row created in this
\* run to a stocks row written in this run.
C18_LinksUseStocksOfSameRun ==
    (last.op = "main" /\ last.results["stocks"].kind = "ok") =>
        /\ last.results["news"].kind = "ok" =>
              \A i \in DOMAIN last.news.items :
                 \A s \in Range(ArticleSymbols(last.news.items[i].f)) :
                    LoadedNow(s) =>
                       \E l \in db.stock_news \ last.pre.stock_news :
                          l.stock_id \in StockIdsNow(s)
        /\ last.results["tweets"].kind = "ok" =>
              \A i \in DOMAIN last.tweets.items :
                 \A s \in Range(TweetSymbols(Get(last.tweets.items[i].f, "text", <<>>))) :
                    LoadedNow(s) =>
                       \E l \in db.stock_tweets \ last.pre.stock_tweets :
                          l.stock_id \in StockIdsNow(s)

\* a run on a store without stocks that loaded stocks, news and tweets and
\* linked both
C18_Witness ==
    /\ last.op = "main"
    /\ last.pre.stocks = {}
    /\ \A w \in AllLoads : last.results[w].kind = "ok"
    /\ db.stock_news # {} /\ db.stock_tweets # {}

\* C19: a news load that returns the error summary leaves the stocks,
\* tweets and stock_tweets tables as before the call, and a tweet load that
\* does leaves the stocks, news and stock_news tables as before the call.
C19_FailedLoadKeepsOtherTypes ==
    /\ (last.op = "news" /\ last.summary.kind = "error") =>
          /\ db.stocks = last.pre.stocks
          /\ db.tweets = last.pre.tweets
          /\ db.stock_tweets = last.pre.stock_tweets
    /\ (last.op = "tweets" /\ last.summary.kind = "error") =>
          /\ db.stocks = last.pre.stocks
          /\ db.news = last.pre.news
          /\ db.stock_news = last.pre.stock_news

\* a tweet load failed on its second record, after stocks and news were
\* loaded and linked
C19_Witness ==
    /\ last.op = "tweets" /\ last.summary.kind = "error"
    /\ Len(last.input.items) = 2 /\ ~Raises(last.input.items[1])
    /\ db.stocks # {} /\ db.news # {} /\ db.stock_news # {}

\* C20: after a loader call the connection the loader opened itself, if
\* any, is closed, whether the loader returned or raised; after a run of
\* main or setup_database the connection of its with block is closed,
\* whether the command returned or a KeyError left the block.
C20_ConnectionsClosed ==
    /\ last.op \in {"stocks", "news", "tweets"} =>
          (last.own.opened => ~last.own.open)
    /\ last.op = "main" => ~last.conn.open

\* a loader called with conn=None opened a connection and raised
C20_Witness ==
    /\ last.op \in {"stocks", "news", "tweets"}
    /\ last.own.opened /\ ~last.own.open
    /\ last.summary.kind = "raised"


\* the tweets of the last file whose body contains one of the forms of symbol
TweetsNaming(symbol) ==
    {i \in DOMAIN last.input.items :
        LET text == Get(last.input.items[i].f, "text", <<>>)
        IN  \E form \in {<<"$">>, <<"#">>, <<>>} :
               StrIn(form \o SymChars(symbol), text)}

\* the stock_tweets rows the last load added under a stocks row of symbol
TweetLinksAdded(symbol) ==
    {l \in db.stock_tweets \ last.pre.stock_tweets :
        \E r \in last.pre.stocks : r.symbol = symbol /\ r.id = l.stock_id}

\* C21: a tweet load that succeeds adds, for every tracked symbol that has a
\* stock row, one stock_tweets row for each tweet of the file whose body
\* contains "$S", "#S" or S, and none for any other tweet: a tweet that
\* matches several forms of S gets one link for S.
C21_OneLinkPerMentionedSymbol ==
    LastOk("tweets") =>
        \A i \in DOMAIN TRACKED_SYMBOLS :
            LET s == TRACKED_SYMBOLS[i]
            IN  IF \E r \in last.pre.stocks : r.symbol = s
                THEN Cardinality(TweetLinksAdded(s)) = Cardinality(TweetsNaming(s))
                ELSE TweetLinksAdded(s) = {}

\* a tweet "$AAPL", which matches the forms "$S" and S, loaded over AAPL and
\* MSFT stock rows: one link, to AAPL
C21_Witness ==
    /\ LastOk("tweets")
    /\ Len(last.input.items) = 1
    /\ Get(last.input.items[1].f, "text", <<>>) = Text(<<"$">>, "AAPL")
    /\ \E r \in last.pre.stocks : r.symbol = "MSFT"
    /\ Cardinality(TweetLinksAdded("AAPL")) = 1
    /\ TweetLinksAdded("MSFT") = {}
    /\ Cardinality(db.stock_tweets \ last.pre.stock_tweets) = 1

\* the value an entry gives for an OHLCV key, 0 when it lacks the key
OrZero(entry, key) == IF key \in DOMAIN entry.f THEN entry.f[key] ELSE 0

\* the stocks rows of (symbol, date)
DateRows(symbol, date) == {r \in db.stocks : r.symbol = symbol /\ r.date = date}

\* entry (date, data) of a file of symbol is stored as one row of its values
EntryStored(symbol, date, data) ==
    /\ Cardinality(DateRows(symbol, date)) = 1
    /\ \A r \in DateRows(symbol, date) :
          /\ r.open = OrZero(data, "Open") /\ r.high = OrZero(data, "High")
          /\ r.low = OrZero(data, "Low") /\ r.close = OrZero(data, "Close")
          /\ r.adj_close = OrZero(data, "Adj Close")
          /\ r.volume = OrZero(data, "Volume")

\* C22: after a stock load, every date entry of every file that loaded is
\* exactly one stocks row (SYMBOL, date, Open, High, Low, Close, Adj Close,
\* Volume) with 0 for each key the entry lacks, and the summary's count for
\* the symbol is the number of date entries of the file.
C22_EntryIsOneRowWithDefaults ==
    (last.op = "stocks" /\ last.summary.kind = "ok") =>
        \A i \in DOMAIN last.input.files :
            LET file == last.input.files[i]
            IN  FileValid(file) =>
                  /\ last.summary.counts[FileSymbol(file)] = Len(file.items)
                  /\ \A j \in DOMAIN file.items :
                        EntryStored(FileSymbol(file), file.items[j][1],
                                    file.items[j][2])

\* a file whose one entry has Open alone: one row, 20 and five zeros
C22_Witness ==
    /\ last.op = "stocks" /\ last.summary.kind = "ok"
    /\ last.input.files = <<AStockFile("AAPL", "obj", <<<<"d1", PartEntry>>>>)>>
    /\ last.summary.counts["AAPL"] = 1
    /\ \E r \in db.stocks :
          /\ r.symbol = "AAPL" /\ r.date = "d1" /\ r.open = 20
          /\ r.high = 0 /\ r.low = 0 /\ r.close = 0
          /\ r.adj_close = 0 /\ r.volume = 0

\* C23: no step modifies or deletes a news or tweets row (a row, with its
\* id and every field value, stays as it was inserted; a tweet re-loaded
\* under the same tweet_id with other content is ignored), and the row
\* counts of news, tweets, stock_news and stock_tweets never decrease.
C23_NewsAndTweetRowsKept ==
    [][/\ db.news \subseteq db'.news
       /\ db.tweets \subseteq db'.tweets
       /\ \A t \in {"news", "tweets", "stock_news", "stock_tweets"} :
             Cardinality(db'[t]) >= Cardinality(db[t])]_vars

\* the tweet t1 was stored with one body and then loaded with another: the
\* stored row is the first one
C23_Witness ==
    /\ LastOk("tweets")
    /\ Len(last.input.items) = 1
    /\ \E r \in last.pre.tweets :
          /\ r.tweet_id = Get(last.input.items[1].f, "id_str", "")
          /\ r.content # Get(last.input.items[1].f, "text", <<>>)
          /\ r \in db.tweets
    /\ db.tweets = last.pre.tweets

\* C26: after any sequence of loads, every stock_news and stock_tweets
\* row's stock_id is the id of an existing stocks row.
C26_LinksReferToStocks ==
    \A l \in db.stock_news \cup db.stock_tweets :
        \E r \in db.stocks : r.id = l.stock_id

\* C27: main (cli) never raises on a loader's summary: whatever summary a
\* loader returns, main reports it and returns an exit code.
C27_MainHandlesEverySummary ==
    (last.op = "main" /\ last.cmd = "cli") =>
        \A what \in AllLoads :
            last.results[what].kind \in {"ok", "error", "warning", "skipped"}
                => ~last.raised

\* the record tables a news or tweet load writes
BatchTables == {"news", "tweets", "stock_news", "stock_tweets"}

\* the rows of record f of a successful load are in the committed database
RecordCommitted(op, f) ==
    IF op = "news"
    THEN \E r \in db.news \ last.pre.news :
            /\ r.headline = Get(f, "title", "")
            /\ r.datetime = Get(f, "published_at", "")
    ELSE \E r \in db.tweets : r.tweet_id = Get(f, "id_str", "")

\* C28: a news or tweet load is all-or-nothing: when it returns an error
\* summary the news, tweets, stock_news and stock_tweets tables are as
\* before the call, also when records were inserted before the failure;
\* when it returns a success summary the rows of every record of the file
\* are committed and counted.
C28_BatchAllOrNothing ==
    last.op \in {"news", "tweets"} =>
        /\ last.summary.kind = "error" =>
              \A t \in BatchTables : db[t] = last.pre[t]
        /\ last.summary.kind = "ok" =>
              /\ last.summary.total = Len(last.input.items)
              /\ \A i \in DOMAIN last.input.items :
                    RecordCommitted(last.op, last.input.items[i].f)
              /\ Cardinality(db.stock_news) + Cardinality(db.stock_tweets)
                    = Cardinality(last.pre.stock_news)
                        + Cardinality(last.pre.stock_tweets)
                        + last.summary.linked

\* a news file whose first article would be inserted and linked and whose
\* second record raises, loaded over earlier news: nothing of it is kept
C28_Witness ==
    /\ last.op = "news" /\ last.summary.kind = "error"
    /\ Len(last.input.items) = 2
    /\ ~Raises(last.input.items[1]) /\ Raises(last.input.items[2])
    /\ \E s \in Range(ArticleSymbols(last.input.items[1].f)) :
          \E r \in last.pre.stocks : r.symbol = s
    /\ last.pre.news # {}
    /\ \A t \in BatchTables : db[t] = last.pre[t]

\* a file that raises after at least one of its date rows was inserted
FailsPartWay(file) ==
    /\ file.t = "obj"
    /\ \E j \in DOMAIN file.items :
          /\ ~IsDict(file.items[j][2])
          /\ j > 1
          /\ \A k \in 1..(j - 1) : IsDict(file.items[k][2])

\* the stocks rows of symbol, ids included
RowsOfSymbol(d, symbol) == {r \in d.stocks : r.symbol = symbol}

\* C29: a stock file that fails part-way through contributes no row (the
\* stocks rows of its symbol are those before the call), and the rows of
\* every file processed before it are in the table.
C29_FailedFileContributesNothing ==
    (last.op = "stocks" /\ last.summary.kind = "ok") =>
        \A i \in DOMAIN last.input.files :
            LET file == last.input.files[i]
            IN  FailsPartWay(file) =>
                  /\ RowsOfSymbol(db, FileSymbol(file))
                        = RowsOfSymbol(last.pre, FileSymbol(file))
                  /\ \A k \in 1..(i - 1) :
                        FileValid(last.input.files[k]) =>
                            FileRowsIn(last.input.files[k], db)

\* a directory whose first file loads and whose second fails on its second
\* date, over a table that has rows of the second file's symbol
C29_Witness ==
    /\ last.op = "stocks" /\ last.summary.kind = "ok"
    /\ Len(last.input.files) = 2
    /\ FileValid(last.input.files[1])
    /\ FailsPartWay(last.input.files[2])
    /\ FileRowsIn(last.input.files[1], db)
    /\ RowsOfSymbol(last.pre, FileSymbol(last.input.files[2])) # {}
    /\ RowsOfSymbol(db, FileSymbol(last.input.files[2]))
          = RowsOfSymbol(last.pre, FileSymbol(last.input.files[2]))

\* C30: a loader does not close the connection its caller passed: after a
\* loader call made with an open connection, on the success path and on
\* every error path, the caller's connection is still open.
C30_PassedConnectionStaysOpen ==
    [][(nloads' = nloads + 1 /\ conn.open) => conn'.open]_vars

\* a news or tweet load that returned the error summary (a malformed file,
\* or a batch that was rolled back) on a connection passed in that had made
\* inserts: the connection is open afterwards
C30_Witness ==
    /\ conn.open
    /\ last.op \in {"news", "tweets"}
    /\ last.own = NoOwn
    /\ last.summary.kind = "error"
    /\ last.input.t \in {"malformed", "list"}
    /\ last.lr0 # 0

\* an input that is no text: None, the empty string, or not a string
NotText(text) == IF text.t = "str" THEN text.v = <<>> ELSE TRUE

C25_TrainedOnlyBySuccess ==
    /\ last.op = "construct" => ~model.trained
    /\ (last.op \in {"predict", "evaluate", "save"} /\ ~last.pre.trained) =>
          /\ last.raised = "RuntimeError"
          /\ path = last.pre_path
    /\ (last.op \in {"train", "predict", "evaluate", "save", "load"}
          /\ ~last.pre.trained /\ model.trained) =>
             last.op \in {"train", "load"} /\ last.raised = "none"
    /\ (last.op \in {"train", "load"} /\ last.raised # "none") =>
          model.trained = last.pre.trained

====
